---- MODULE Spec2Model ----
(***************************************************************************)
(* scrunchie: content-aware image resizing by seam carving (src/main.rs).  *)
(*                                                                         *)
(* An RgbImage is modelled as [w, h, px] with px[y + 1][x + 1] the pixel   *)
(* <<r, g, b>> at column x, row y.  A Position(x, y) is the pair <<x, y>>. *)
(* A Seam is the record [posn, prev_posn, cost]; Option::None is None.     *)
(* A call that can panic returns Ok(v) or Panic.  TLC's integers are 32    *)
(* bits wide and signed, so a u32 cost is kept as its two 16-bit halves    *)
(* <<hi, lo>>; an energy (at most 780300) is kept as an integer.           *)
(***************************************************************************)
EXTENDS Integers, Sequences, FiniteSets

VARIABLES
    img0,              \* the grid as loaded (main.rs:172), kept for reference
    img,               \* main's `img`
    columns_to_carve,  \* main's `columns_to_carve`
    iter,              \* completed iterations of the carving loop
    energies,          \* the loop body's `energies`
    bottom_up,         \* the loop body's `bottom_up` 
    pc,                \* where main is
    overflow_checks    \* build profile: TRUE = overflow panics, FALSE = it wraps

vars == <<img0, img, columns_to_carve, iter, energies, bottom_up, pc, overflow_checks>>

----------------------------------------------------------------------------
(* Bounds of the model. *)

\* Grids of at most this many pixels are enumerated (3x3 and 4x2 included).
MaxPixels == 9

\* Height of the tall grids of SpecTall.
TallH == 7345

\* Channel values the enumerated pixels are drawn from: red and blue, the
\* colours of test_determine_best_seam.
Palette == { <<255, 0, 0>>, <<0, 0, 255>> }

\* Energy values drawn for the seam functions' own inputs.
EnergyValues == {0, 1}

\* Values of the -p argument (default 66).
Percentages == {0, 25, 34, 50, 66, 75, 100, 150}

----------------------------------------------------------------------------
(* Results and integer widths. *)

\* 2^16: a u32 is <<hi, lo>> with hi, lo < Half and value hi * Half + lo.
Half == 256 * 256

\* The pair of a natural number below 2^31.
Big(n) == <<n \div Half, n % Half>>

\* The exact sum of two pairs (hi is not reduced).
BigAdd(a, b) == <<a[1] + b[1] + ((a[2] + b[2]) \div Half), (a[2] + b[2]) % Half>>

BigLe(a, b) == a[1] < b[1] \/ (a[1] = b[1] /\ a[2] <= b[2])

BigLt(a, b) == ~BigLe(b, a)

None == <<>>

Panic == [ok |-> FALSE]

Ok(v) == [ok |-> TRUE, val |-> v]

\* u32 `a + b`: panics with overflow checks on, wraps without them.
u32_add(a, b, checks) ==
    LET s == BigAdd(a, b)
    IN  IF s[1] < Half THEN Ok(s)
        ELSE IF checks THEN Panic
        ELSE Ok(<<s[1] % Half, s[2]>>)

----------------------------------------------------------------------------
(* Pixels. *)

InBounds(image, x, y) == x >= 0 /\ x < image.w /\ y >= 0 /\ y < image.h

\* RgbImage::get_pixel: panics when (x, y) is out of bounds.
get_pixel(image, x, y) ==
    IF InBounds(image, x, y) THEN Ok(image.px[y + 1][x + 1]) ELSE Panic

\* (a as i32 - b as i32).pow(2) as u32
sq_diff(a, b) == (a - b) * (a - b)

----------------------------------------------------------------------------
(* Energy map. *)

\* Variant: only the neighbours inside the grid.
get_von_neumann_neighbors_in_bounds(image, x, y) ==
    SelectSeq(<< <<x - 1, y>>, <<x + 1, y>>, <<x, y + 1>>, <<x, y - 1>> >>,
              LAMBDA p : InBounds(image, p[1], p[2]))

get_von_neumann_neighbors(image, x, y) ==
    LET horiz == IF x = 0 THEN << <<x + 1, y>> >>
                 ELSE IF x = image.w - 1 THEN << <<x - 1, y>> >>
                 ELSE << <<x - 1, y>>, <<x + 1, y>> >>
        vert  == IF y = 0 THEN << <<x, y + 1>> >>
                 ELSE IF y = image.h - 1 THEN << <<x, y - 1>> >>
                 ELSE << <<x, y + 1>>, <<x, y - 1>> >>
    IN  horiz \o vert

RECURSIVE energy_sum(_, _, _, _)
\* The body of calculate_energy's loop, from neighbour i on.
energy_sum(image, center, nbrs, i) ==
    IF i > Len(nbrs) THEN Ok(0)
    ELSE LET p == get_pixel(image, nbrs[i][1], nbrs[i][2])
         IN  IF ~p.ok THEN Panic
             ELSE LET rest == energy_sum(image, center, nbrs, i + 1)
                  IN  IF ~rest.ok THEN Panic
                      ELSE Ok(sq_diff(p.val[1], center[1])
                              + sq_diff(p.val[2], center[2])
                              + sq_diff(p.val[3], center[3]) + rest.val)

calculate_energy(image, x, y) ==
    LET c == get_pixel(image, x, y)
    IN  IF ~c.ok THEN Panic
        ELSE energy_sum(image, c.val, get_von_neumann_neighbors(image, x, y), 1)

generate_energies_vector(image) ==
    LET n == image.w * image.h
        e(i) == calculate_energy(image, (i - 1) % image.w, (i - 1) \div image.w)
    IN  IF \E i \in 1..n : ~e(i).ok THEN Panic
        ELSE Ok([i \in 1..n |-> e(i).val])

----------------------------------------------------------------------------
(* Seam table. *)

\* Variant: the left diagonal is never a candidate.
get_bottom_up_neighbors_no_left(image, x, y) ==
    IF y = 0 THEN << >>
    ELSE IF x = image.w - 1 /\ x # 0 THEN << <<x, y - 1>> >>
    ELSE << <<x, y - 1>>, <<x + 1, y - 1>> >>

get_bottom_up_neighbors(image, x, y) ==
    IF y = 0 THEN << >>
    ELSE IF x = 0 THEN << <<x, y - 1>>, <<x + 1, y - 1>> >>
    ELSE IF x = image.w - 1 THEN << <<x, y - 1>>, <<x - 1, y - 1>> >>
    ELSE << <<x, y - 1>>, <<x + 1, y - 1>>, <<x - 1, y - 1>> >>

\* Variant: the last element of minimum key (what max_by_key does on ties).
min_by_key_last(keys) ==
    IF Len(keys) = 0 THEN 0
    ELSE CHOOSE i \in 1..Len(keys) :
            /\ \A j \in 1..Len(keys) : BigLe(keys[i], keys[j])
            /\ \A j \in (i + 1)..Len(keys) : BigLt(keys[i], keys[j])

\* Iterator::min_by_key over keys already computed: the index of the first
\* element of minimum key (0 for an empty iterator, which yields None).
min_by_key(keys) ==
    IF Len(keys) = 0 THEN 0
    ELSE CHOOSE i \in 1..Len(keys) :
            /\ \A j \in 1..Len(keys) : BigLe(keys[i], keys[j])
            /\ \A j \in 1..(i - 1) : BigLt(keys[i], keys[j])

\* (posn.0 + posn.1 * img.width()) as usize
cell_index(image, posn) == posn[1] + posn[2] * image.w

\* The base case of generate_bottom_up_vector: row 0.
base_case(image, energy) ==
    IF image.w > Len(energy) THEN Panic
    ELSE Ok([x \in 1..image.w |->
                [posn |-> <<x - 1, 0>>, prev_posn |-> None, cost |-> Big(energy[x])]])

RECURSIVE recursive_case(_, _, _, _, _, _)
\* The inner loop of generate_bottom_up_vector's recursive case: row y from
\* column x on, pushed onto `table`.
recursive_case(image, energy, table, x, y, checks) ==
    IF x >= image.w THEN Ok(table)
    ELSE LET nbrs == get_bottom_up_neighbors(image, x, y)
         IN  IF \E i \in 1..Len(nbrs) : cell_index(image, nbrs[i]) >= Len(table)
             THEN Panic
             ELSE LET keys == [i \in 1..Len(nbrs) |->
                                  table[cell_index(image, nbrs[i]) + 1].cost]
                      m    == min_by_key(keys)
                  IN  IF m = 0 \/ x + y * image.w >= Len(energy) THEN Panic
                      ELSE LET cost == u32_add(Big(energy[x + y * image.w + 1]),
                                               keys[m], checks)
                           IN  IF ~cost.ok THEN Panic
                               ELSE recursive_case(image, energy,
                                        Append(table, [posn |-> <<x, y>>,
                                                       prev_posn |-> nbrs[m],
                                                       cost |-> cost.val]),
                                        x + 1, y, checks)

RECURSIVE recursive_rows(_, _, _, _, _, _)
\* The outer loop of the recursive case over rows lo .. hi - 1, in order
\* (split in halves, so that a tall grid needs no deep recursion).
recursive_rows(image, energy, table, lo, hi, checks) ==
    IF lo >= hi THEN Ok(table)
    ELSE IF hi = lo + 1 THEN recursive_case(image, energy, table, 0, lo, checks)
    ELSE LET mid   == (lo + hi) \div 2
             first == recursive_rows(image, energy, table, lo, mid, checks)
         IN  IF ~first.ok THEN Panic
             ELSE recursive_rows(image, energy, first.val, mid, hi, checks)

generate_bottom_up_vector(image, energy, checks) ==
    LET base == base_case(image, energy)
    IN  IF ~base.ok THEN Panic
        ELSE recursive_rows(image, energy, base.val, 1, image.h, checks)

----------------------------------------------------------------------------
(* Seam extraction and removal. *)

\* The Seam with lowest cost in the last row of `table`, or Panic.
determine_best_seam(image, table) ==
    IF image.h = 0 THEN Panic
    ELSE LET start == image.w * (image.h - 1)
         IN  IF start > Len(table) THEN Panic
             ELSE LET m == min_by_key([i \in 1..(Len(table) - start) |->
                                          table[start + i].cost])
                  IN  IF m = 0 THEN Panic ELSE Ok(table[start + m])

\* One pass of seam_to_position_vector's while-let loop on the loop state
\* [ok, seam, acc] (acc is posn_vector); no change once prev_posn is None.
follow_step(image, table, st) ==
    IF ~st.ok \/ st.seam.prev_posn = None THEN st
    ELSE IF cell_index(image, st.seam.prev_posn) >= Len(table)
    THEN [ok |-> FALSE, seam |-> st.seam, acc |-> st.acc]
    ELSE [ok   |-> TRUE,
          seam |-> table[cell_index(image, st.seam.prev_posn) + 1],
          acc  |-> Append(st.acc, st.seam.prev_posn)]

RECURSIVE follow_prev(_, _, _, _)
\* n passes of the loop, in order (split in halves).  Every prev_posn of a
\* table of generate_bottom_up_vector is one row up, so the loop is over
\* after at most image.h passes.
follow_prev(image, table, st, n) ==
    IF n <= 0 THEN st
    ELSE IF n = 1 THEN follow_step(image, table, st)
    ELSE LET first == follow_prev(image, table, st, n \div 2)
         IN  IF ~first.ok THEN first
             ELSE follow_prev(image, table, first, n - (n \div 2))

Reverse(s) == [i \in 1..Len(s) |-> s[Len(s) + 1 - i]]

\* Variant: the seam's own position is not pushed.
seam_to_position_vector_no_first(image, table, initial_seam) ==
    LET v == follow_prev(image, table,
                         [ok |-> TRUE, seam |-> initial_seam, acc |-> << >>],
                         image.h)
    IN  IF ~v.ok THEN Panic ELSE Ok(Reverse(v.acc))

seam_to_position_vector(image, table, initial_seam) ==
    LET v == follow_prev(image, table,
                         [ok |-> TRUE, seam |-> initial_seam,
                          acc |-> <<initial_seam.posn>>], image.h)
    IN  IF ~v.ok THEN Panic ELSE Ok(Reverse(v.acc))

\* Variant: the column is taken for a 1-based index.
cut_row_one_based(row, col) ==
    SelectSeq([x \in 1..Len(row) |-> <<x, row[x]>>],
              LAMBDA e : e[1] # col)

\* One row of cut_seam's copy loop: the pixels whose column is not `col`.
\* put_pixel panics once more than w - 1 pixels are kept.
cut_row(row, col) ==
    SelectSeq([x \in 1..Len(row) |-> <<x - 1, row[x]>>],
              LAMBDA e : e[1] # col)

cut_seam(old_img, table) ==
    LET seam == determine_best_seam(old_img, table)
    IN  IF ~seam.ok THEN Panic
        ELSE LET posns == seam_to_position_vector(old_img, table, seam.val)
             IN  IF ~posns.ok \/ old_img.w = 0 THEN Panic
                 ELSE LET n == IF Len(posns.val) < old_img.h
                               THEN Len(posns.val) ELSE old_img.h
                          kept(y) == cut_row(old_img.px[y], posns.val[y][1])
                      IN  IF \E y \in 1..n : Len(kept(y)) > old_img.w - 1
                          THEN Panic
                          ELSE Ok([w  |-> old_img.w - 1,
                                   h  |-> old_img.h,
                                   px |-> [y \in 1..old_img.h |->
                                             IF y <= n
                                             THEN [x \in 1..(old_img.w - 1) |->
                                                      kept(y)[x][2]]
                                             ELSE [x \in 1..(old_img.w - 1) |->
                                                      <<0, 0, 0>>]]])

----------------------------------------------------------------------------
(* Grids the runs start from. *)

Dims(lo) ==
    { d \in (lo..MaxPixels) \X (lo..MaxPixels) : d[1] * d[2] <= MaxPixels }

\* Every w x h grid over the palette.
Grids(w, h) ==
    { [w |-> w, h |-> h, px |-> p] : p \in [1..h -> [1..w -> Palette]] }

\* The w x h grid whose pixel at (x, y) has the colour <<x, y, 0>>.
LabelGrid(w, h) ==
    [w |-> w, h |-> h, px |-> [y \in 1..h |-> [x \in 1..w |-> <<x - 1, y - 1, 0>>]]]

\* The 2 x TallH grid of one colour per row pair (c, d): rows alternate
\* <<c, d>> and <<d, c>>.
TallGrid(c, d) ==
    [w |-> 2, h |-> TallH,
     px |-> [y \in 1..TallH |-> IF y % 2 = 1 THEN <<c, d>> ELSE <<d, c>>]]

\* Colours of the tall grids' pixels: black, grey and white.
TallColours == { <<v, v, v>> : v \in {0, 128, 255} }

----------------------------------------------------------------------------
(* main. *)

\* main.rs:172-174: the grid is loaded and columns_to_carve derived from it.
Loaded(grid, percentage) ==
    /\ img0 = grid
    /\ img = grid
    /\ columns_to_carve = (grid.w * percentage) \div 100
    /\ iter = 0
    /\ energies = << >>
    /\ bottom_up = << >>
    /\ pc = "loop"

Init ==
    /\ overflow_checks \in BOOLEAN
    /\ \E d \in Dims(1) : \E grid \in Grids(d[1], d[2]) :
          \E percentage \in Percentages : Loaded(grid, percentage)

\* As Init, with grids of width or height 0 as well.
InitAny ==
    /\ overflow_checks \in BOOLEAN
    /\ \E d \in Dims(0) : \E grid \in Grids(d[1], d[2]) :
          \E percentage \in Percentages : Loaded(grid, percentage)

\* The seam functions on inputs of their own: a grid and any energy vector
\* of its size, at the call of generate_bottom_up_vector.
InitSeam ==
    /\ overflow_checks \in BOOLEAN
    /\ \E d \in Dims(1) :
          /\ img0 = LabelGrid(d[1], d[2])
          /\ img = img0
          /\ energies \in [1..(d[1] * d[2]) -> EnergyValues]
    /\ columns_to_carve \in 1..2
    /\ iter = 0
    /\ bottom_up = << >>
    /\ pc = "bottom_up"

\* main.rs:184
GenerateEnergies ==
    /\ pc = "loop"
    /\ iter < columns_to_carve
    /\ LET r == generate_energies_vector(img)
       IN  IF r.ok THEN energies' = r.val /\ pc' = "bottom_up"
           ELSE energies' = energies /\ pc' = "panic_energies"
    /\ UNCHANGED <<img0, img, columns_to_carve, iter, bottom_up, overflow_checks>>

\* main.rs:185
GenerateBottomUp ==
    /\ pc = "bottom_up"
    /\ LET r == generate_bottom_up_vector(img, energies, overflow_checks)
       IN  IF r.ok THEN bottom_up' = r.val /\ pc' = "cut"
           ELSE bottom_up' = bottom_up /\ pc' = "panic_bottom_up"
    /\ UNCHANGED <<img0, img, columns_to_carve, iter, energies, overflow_checks>>

\* main.rs:186-187: the grid is replaced, the iteration's vectors dropped.
CutSeam ==
    /\ pc = "cut"
    /\ LET r == cut_seam(img, bottom_up)
       IN  IF r.ok
           THEN /\ img' = r.val
                /\ iter' = iter + 1
                /\ energies' = << >>
                /\ bottom_up' = << >>
                /\ pc' = "loop"
           ELSE /\ pc' = "panic_cut"
                /\ UNCHANGED <<img, iter, energies, bottom_up>>
    /\ UNCHANGED <<img0, columns_to_carve, overflow_checks>>

\* main.rs:190: the loop is over and the grid handed to save.
Save ==
    /\ pc = "loop"
    /\ iter >= columns_to_carve
    /\ pc' = "saved"
    /\ UNCHANGED <<img0, img, columns_to_carve, iter, energies, bottom_up, overflow_checks>>

Next == GenerateEnergies \/ GenerateBottomUp \/ CutSeam \/ Save

Spec == Init /\ [][Next]_vars

SpecAny == InitAny /\ [][Next]_vars

SpecSeam == InitSeam /\ [][Next]_vars

Panicked == pc \in {"panic_energies", "panic_bottom_up", "panic_cut"}

----------------------------------------------------------------------------------------------------------------------------------------------
(* The same run on tall grids of two columns. *)

InitTall ==
    /\ overflow_checks \in BOOLEAN
    /\ \E c \in TallColours : \E d \in TallColours :
          \E percentage \in {0, 50} : Loaded(TallGrid(c, d), percentage)

SpecTall == InitTall /\ [][Next]_vars

----------------------------------------------------------------------------
(* Reference notions the properties are stated with. *)

\* The value of a pair below 2^31.
ToNat(c) == c[1] * Half + c[2]

\* 4 neighbours, 3 channels, 255^2 each.
MaxEnergy == 4 * 3 * 255 * 255

\* The in-bounds 4-connected neighbours of (x, y).
GridNeighbours(image, x, y) ==
    { p \in { <<x - 1, y>>, <<x + 1, y>>, <<x, y - 1>>, <<x, y + 1>> } :
        InBounds(image, p[1], p[2]) }

RECURSIVE SumOver(_, _)
\* The sum of f[p] over the finite set S.
SumOver(f, S) ==
    IF S = {} THEN 0
    ELSE LET p == CHOOSE q \in S : TRUE IN f[p] + SumOver(f, S \ {p})

\* The energy of (x, y): squared channel differences to its in-bounds
\* neighbours.
ReferenceEnergy(image, x, y) ==
    LET c == image.px[y + 1][x + 1]
        N == GridNeighbours(image, x, y)
        d == [p \in N |->
                LET q == image.px[p[2] + 1][p[1] + 1]
                IN  (q[1] - c[1]) * (q[1] - c[1]) + (q[2] - c[2]) * (q[2] - c[2])
                    + (q[3] - c[3]) * (q[3] - c[3])]
    IN  SumOver(d, N)

\* The top-to-bottom paths of a w x h grid: one column per row, consecutive
\* columns at most one apart.
AllPaths(w, h) ==
    { p \in [1..h -> 0..(w - 1)] :
        \A r \in 1..(h - 1) : p[r] - p[r + 1] \in {-1, 0, 1} }

\* The total energy of the path p (p[r] the column in row r - 1).
PathEnergy(image, energy, p) ==
    SumOver([r \in 1..image.h |-> energy[p[r] + (r - 1) * image.w + 1]], 1..image.h)

RECURSIVE SubseqFrom(_, _, _, _)
\* Whether s from index i on is a subsequence of t from index j on.
SubseqFrom(s, t, i, j) ==
    IF i > Len(s) THEN TRUE
    ELSE IF j > Len(t) THEN FALSE
    ELSE IF s[i] = t[j] THEN SubseqFrom(s, t, i + 1, j + 1)
    ELSE SubseqFrom(s, t, i, j + 1)

IsSubseq(s, t) == SubseqFrom(s, t, 1, 1)

\* The table of a grid with W, H >= 1 is built and cut_seam is about to
\* choose its seam.
SeamChosen == pc = "cut" /\ img.w >= 1 /\ img.h >= 1

\* The seam cut_seam removes in the current state, and its path.
BestSeam == determine_best_seam(img, bottom_up).val

BestPath == seam_to_position_vector(img, bottom_up, BestSeam).val

\* The table's entry for column c of row r.
Cell(c, r) == bottom_up[c + r * img.w + 1]

----------------------------------------------------------------------------
(* C1 *)

\* C1: with N < W columns to remove from a W x H grid (W, H >= 1), the
\* carving loop completes all N iterations without a fatal error and the
\* final grid is (W - N) x H.
C1_CarveCompletes ==
    columns_to_carve < img0.w =>
        /\ ~Panicked
        /\ pc = "saved" =>
              /\ iter = columns_to_carve
              /\ img.w = img0.w - columns_to_carve
              /\ img.h = img0.h

----------------------------------------------------------------------------
(* C5 *)

\* C5: generate_energies_vector returns, for every grid with W, H >= 1, the
\* W * H energies in row-major order, each the sum over the in-bounds
\* 4-connected neighbours of the squared channel differences, and reads no
\* position outside the grid.
C5_EnergyMap ==
    /\ pc # "panic_energies"
    /\ pc = "bottom_up" =>
          /\ Len(energies) = img.w * img.h
          /\ \A y \in 0..(img.h - 1) : \A x \in 0..(img.w - 1) :
                energies[x + y * img.w + 1] = ReferenceEnergy(img, x, y)

----------------------------------------------------------------------------
(* C8 *)

\* C8: a grid of width 0 or height 0 is rejected before the first loop
\* iteration starts, and is never handed to the save step.
C8_DegenerateRejected ==
    (img0.w = 0 \/ img0.h = 0) =>
        /\ pc # "saved"
        /\ pc \notin {"bottom_up", "cut", "panic_energies", "panic_bottom_up", "panic_cut"}

----------------------------------------------------------------------------
(* C7 *)

\* C7: with N >= W the run aborts: the save step is never reached, no grid
\* of width 0 is constructed, and the run is either still inside the loop
\* or has ended by a fatal error.
C7_OverCarveAborts ==
    columns_to_carve >= img0.w =>
        /\ pc # "saved"
        /\ img.w >= 1
        /\ iter < img0.w
        /\ \/ Panicked
           \/ pc \in {"bottom_up", "cut"}
           \/ pc = "loop" /\ iter < columns_to_carve

\* An over-carving run that removed all but one column and then aborted.
C7_Witness ==
    /\ columns_to_carve >= img0.w
    /\ img0.w >= 3
    /\ iter = img0.w - 1
    /\ img.w = 1
    /\ Panicked

----------------------------------------------------------------------------
(* C9 *)

\* C9: after k completed iterations (0 <= k <= N) the working grid has the
\* initial height, width W - k, and each row is an order-preserving
\* subsequence of the same row of the initial grid; for k = 0 it is the
\* initial grid.
C9_RowsPreserved ==
    /\ iter \in 0..columns_to_carve
    /\ img.h = img0.h
    /\ img.w = img0.w - iter
    /\ Len(img.px) = img.h
    /\ \A y \in 1..img.h :
          /\ Len(img.px[y]) = img.w
          /\ IsSubseq(img.px[y], img0.px[y])
    /\ iter = 0 => img = img0

\* Two columns removed from a grid of at least two rows that are not all of
\* one colour.
C9_Witness ==
    /\ iter = 2
    /\ pc = "loop"
    /\ img.h >= 2
    /\ img.w >= 1
    /\ \E y \in 1..img.h : \E x \in 1..img0.w : img0.px[y][x] # img0.px[1][1]

----------------------------------------------------------------------------
(* C2 *)

\* C2: the cost of the bottom-row cell chosen by determine_best_seam equals
\* the sum of the energies along the path seam_to_position_vector returns,
\* and equals the minimum total energy over all top-to-bottom paths.
C2_SeamCostIsMinimum ==
    SeamChosen =>
        /\ ToNat(BestSeam.cost)
             = SumOver([i \in 1..Len(BestPath) |->
                           energies[cell_index(img, BestPath[i]) + 1]],
                       1..Len(BestPath))
        /\ \E p \in AllPaths(img.w, img.h) :
              PathEnergy(img, energies, p) = ToNat(BestSeam.cost)
        /\ \A p \in AllPaths(img.w, img.h) :
              PathEnergy(img, energies, p) >= ToNat(BestSeam.cost)

\* A seam of positive cost chosen in a grid of at least 3 x 3 whose path
\* moves both left and right.
C2_Witness ==
    /\ SeamChosen
    /\ img.w >= 3
    /\ img.h >= 3
    /\ ToNat(BestSeam.cost) > 0
    /\ \E r \in 1..(img.h - 1) : BestPath[r + 1][1] = BestPath[r][1] + 1
    /\ \E r \in 1..(img.h - 1) : BestPath[r + 1][1] = BestPath[r][1] - 1

----------------------------------------------------------------------------
(* C3 *)

\* C3: for every grid with W, H >= 1 the path of the chosen seam has exactly
\* H positions, the i-th in row i, every column in [0, W), consecutive
\* columns at most one apart.
C3_SeamPathShape ==
    /\ (img.w >= 1 /\ img.h >= 1) => pc \notin {"panic_bottom_up", "panic_cut"}
    /\ SeamChosen =>
          /\ Len(BestPath) = img.h
          /\ \A i \in 1..Len(BestPath) :
                /\ BestPath[i][2] = i - 1
                /\ BestPath[i][1] \in 0..(img.w - 1)
          /\ \A i \in 1..(Len(BestPath) - 1) :
                BestPath[i][1] - BestPath[i + 1][1] \in {-1, 0, 1}

----------------------------------------------------------------------------
(* C4 *)

\* The column of the path's position in row r.
SeamColumn(path, r) == (CHOOSE p \in {path[i] : i \in 1..Len(path)} : p[2] = r)[1]

\* C4: for a grid of width W >= 2, cut_seam returns a grid of width W - 1
\* and the same height whose row r is the input row r without the pixel at
\* the seam's column for row r: pixels left of it keep their column, pixels
\* right of it move one column left.
C4_CutSeamRows ==
    [][(pc = "cut" /\ pc' = "loop" /\ img.w >= 2) =>
          /\ img'.w = img.w - 1
          /\ img'.h = img.h
          /\ Len(img'.px) = img.h
          /\ \A r \in 0..(img.h - 1) :
                /\ Len(img'.px[r + 1]) = img.w - 1
                /\ \A c \in 0..(img.w - 2) :
                      img'.px[r + 1][c + 1] =
                          IF c < SeamColumn(BestPath, r)
                          THEN img.px[r + 1][c + 1]
                          ELSE img.px[r + 1][c + 2]]_vars

\* One seam cut from a labelled grid of at least 3 x 2, the removed columns
\* not all the same.
C4_Witness ==
    /\ pc = "loop"
    /\ iter = 1
    /\ img0.w >= 3
    /\ img0.h >= 2
    /\ img.w = img0.w - 1
    /\ \E c \in 0..(img0.w - 1) :
          /\ \A x \in 1..img.w : img.px[1][x] # <<c, 0, 0>>
          /\ \E x \in 1..img.w : img.px[2][x] = <<c, 1, 0>>

----------------------------------------------------------------------------
(* C6 *)

\* The candidates of column c in tie-break order: above, right, left, those
\* inside [0, W).
Candidates(c) ==
    SelectSeq(<<c, c + 1, c - 1>>, LAMBDA k : k \in 0..(img.w - 1))

\* The first candidate of column c whose cost in row r - 1 is minimal.
TieBreak(c, r) ==
    LET cand == Candidates(c)
        i == CHOOSE i \in 1..Len(cand) :
                /\ \A j \in 1..Len(cand) :
                      BigLe(Cell(cand[i], r - 1).cost, Cell(cand[j], r - 1).cost)
                /\ \A j \in 1..(i - 1) :
                      Cell(cand[j], r - 1).cost # Cell(cand[i], r - 1).cost
    IN  cand[i]

\* C6: every cell of a row r > 0 records as predecessor the first candidate
\* of minimum cost in the order above, right, left; the seam's end is the
\* leftmost cell of minimum cost in the bottom row.
C6_TieBreaks ==
    SeamChosen =>
        /\ \A r \in 1..(img.h - 1) : \A c \in 0..(img.w - 1) :
              Cell(c, r).prev_posn = <<TieBreak(c, r), r - 1>>
        /\ \A c \in 0..(img.w - 1) : Cell(c, 0).prev_posn = None
        /\ BestSeam.posn[2] = img.h - 1
        /\ \A c \in 0..(img.w - 1) :
              /\ BigLe(BestSeam.cost, Cell(c, img.h - 1).cost)
              /\ c < BestSeam.posn[1] =>
                    Cell(c, img.h - 1).cost # BestSeam.cost

\* A table in which some cell's three candidates tie, some cell's right and
\* left candidates tie below the one above, and the bottom row's minimum is
\* attained twice.
C6_Witness ==
    /\ SeamChosen
    /\ img.w >= 3
    /\ img.h >= 2
    /\ \E r \in 1..(img.h - 1) : \E c \in 1..(img.w - 2) :
          /\ Cell(c, r - 1).cost = Cell(c + 1, r - 1).cost
          /\ Cell(c, r - 1).cost = Cell(c - 1, r - 1).cost
    /\ \E r \in 1..(img.h - 1) : \E c \in 1..(img.w - 2) :
          /\ Cell(c + 1, r - 1).cost = Cell(c - 1, r - 1).cost
          /\ BigLt(Cell(c + 1, r - 1).cost, Cell(c, r - 1).cost)
          /\ Cell(c, r).prev_posn = <<c + 1, r - 1>>
    /\ \E c \in 0..(img.w - 1) :
          /\ c # BestSeam.posn[1]
          /\ Cell(c, img.h - 1).cost = BestSeam.cost

----------------------------------------------------------------------------
(* C10 *)

\* k times the pair a, exact (for k < 2^15).
BigTimes(a, k) == <<a[1] * k + ((a[2] * k) \div Half), (a[2] * k) % Half>>

\* C10: the u32 arithmetic of the seam table never overflows: every energy
\* is at most 780300 and the cost stored for a cell of row r is the exact
\* sum of its energy and its predecessor's cost, at most (r + 1) * 780300
\* and below 2^32, whatever the grid's height.
C10_NoOverflow ==
    /\ pc # "panic_bottom_up"
    /\ pc \in {"bottom_up", "cut"} =>
          \A i \in 1..Len(energies) : energies[i] \in 0..MaxEnergy
    /\ pc = "cut" =>
          \A r \in 0..(img.h - 1) : \A c \in 0..(img.w - 1) :
             LET cell == Cell(c, r)
                 e    == Big(energies[c + r * img.w + 1])
             IN  /\ cell.cost[1] < Half
                 /\ BigLe(cell.cost, BigTimes(Big(MaxEnergy), r + 1))
                 /\ cell.cost = IF r = 0 THEN e
                                ELSE BigAdd(e, Cell(cell.prev_posn[1], r - 1).cost)

====
